---- MODULE Spec2Model ----
(***************************************************************************)
(* Basic-block / control-flow-graph layer of the IR (src/src/ir/block.rs). *)
(*                                                                         *)
(* The Context owns two arenas: blocks and instructions.  A handle is an   *)
(* index that is never handed out twice, so a handle to a deallocated slot *)
(* is recognisably invalid.  Every operation of block.rs is a pure         *)
(* operator from a context to a result [c |-> context, res |-> outcome];   *)
(* res = "panic" is a Rust panic, and c is then the context as the panic   *)
(* left it (the mutations made before the panic stay).                     *)
(***************************************************************************)
EXTENDS Integers, Sequences, FiniteSets, TLC

VARIABLES ctx, last, steps, freed, rw

vars == <<ctx, last, steps, freed, rw>>

\* Bounds of the model.
MaxBlocks == 3
MaxInsts == 3
MaxSteps == 2
MaxFuncs == 1
MaxCalls == 3
MaxListSteps == 4

None == 0
Blocks == 1..MaxBlocks
Insts == 1..MaxInsts
Funcs == 1..MaxFuncs
BranchKinds == {"Br", "CondBr"}
InstKinds == BranchKinds \cup {"Other"}

(***************************************************************************)
(* Results of an operation.                                                *)
(***************************************************************************)
\* res: "ok" the call returned; "err" it returned Result::Err; "absent" it
\* returned Option::None; "panic" it panicked.
Ok(c) == [c |-> c, res |-> "ok"]
\* A read that returned the value v.
Got(c, v) == [c |-> c, res |-> "ok", val |-> v]
Err(c) == [c |-> c, res |-> "err"]
Panic(c) == [c |-> c, res |-> "panic"]
IsOk(r) == r.res = "ok"
\* Result::unwrap: Err becomes a panic.
Unwrap(r) == IF r.res = "err" THEN Panic(r.c) ELSE r

(***************************************************************************)
(* Arena: validity of handles.                                             *)
(***************************************************************************)
BlockValid(c, b) == b \in Blocks /\ b <= c.nblocks /\ c.blive[b]
InstValid(c, i) == i \in Insts /\ i <= c.ninsts /\ c.ilive[i]

\* Mutant of BlockEdge: equality that ignores the arm flag.
BlockEdge_no_arm(to, inst, arm) == <<to, inst, FALSE>>

\* pub struct BlockEdge(Block, Inst, bool): equality covers the three fields.
BlockEdge(to, inst, arm) == <<to, inst, arm>>
EdgeTo(e) == e[1]
EdgeInst(e) == e[2]
EdgeIsTrueBranch(e) == e[3]

\* User<Block>: operand slot idx of instruction inst.
User(inst, idx) == <<inst, idx>>

(***************************************************************************)
(* The context right after Context::new: both arenas empty.                *)
(***************************************************************************)
EmptyCtx ==
  [ nblocks    |-> 0,
    blive      |-> [b \in Blocks |-> FALSE],
    users      |-> [b \in Blocks |-> {}],
    successors |-> [b \in Blocks |-> {}],
    head       |-> [b \in Blocks |-> None],
    tail       |-> [b \in Blocks |-> None],
    bnext      |-> [b \in Blocks |-> None],
    bprev      |-> [b \in Blocks |-> None],
    bcont      |-> [b \in Blocks |-> None],
    fhead      |-> [f \in Funcs |-> None],
    ftail      |-> [f \in Funcs |-> None],
    ninsts     |-> 0,
    ilive      |-> [i \in Insts |-> FALSE],
    kind       |-> [i \in Insts |-> "None"],
    ops        |-> [i \in Insts |-> <<>>],
    inext      |-> [i \in Insts |-> None],
    iprev      |-> [i \in Insts |-> None],
    icont      |-> [i \in Insts |-> None] ]

\* The handle the storage arena gives to the next block: handles are
\* generational, so one that was handed out is never handed out again.
Block_fresh(c) == c.nblocks + 1

\* Mutant of Block_new: the slot of a deallocated block is handed out again
\* under its old handle.
Block_new_reuses_slot(c) ==
  LET dead == {x \in 1..c.nblocks : ~c.blive[x]}
      b == IF dead # {} THEN CHOOSE x \in dead : TRUE ELSE c.nblocks + 1
  IN Ok([c EXCEPT !.nblocks = IF b > @ THEN b ELSE @,
                  !.blive[b] = TRUE])

\* Mutant of Block_new: the new block is chained behind the last block.
Block_new_linked(c) ==
  LET b == c.nblocks + 1 IN
  Ok([c EXCEPT !.nblocks = b,
               !.blive[b] = TRUE,
               !.bprev[b] = c.nblocks,
               !.bnext = IF c.nblocks >= 1 THEN [@ EXCEPT ![c.nblocks] = b] ELSE @])

(***************************************************************************)
(* Block::new: a fresh slot with empty sets and no links.                  *)
(***************************************************************************)
Block_new(c) ==
  LET b == Block_fresh(c) IN
  Ok([c EXCEPT !.nblocks = b,
               !.blive[b] = TRUE,
               !.users[b] = {},
               !.successors[b] = {},
               !.head[b] = None,
               !.tail[b] = None,
               !.bnext[b] = None,
               !.bprev[b] = None,
               !.bcont[b] = None])

\* Arena<Block>::try_dealloc: releases the slot when present (its data is
\* dropped with it), reports absent otherwise.  Nothing else is looked at.
Block_try_dealloc(c, b) ==
  IF ~BlockValid(c, b) THEN c
  ELSE [c EXCEPT !.blive[b] = FALSE,
                 !.users[b] = {},
                 !.successors[b] = {},
                 !.head[b] = None,
                 !.tail[b] = None,
                 !.bnext[b] = None,
                 !.bprev[b] = None,
                 !.bcont[b] = None]

\* Mutant of try_dealloc: an absent slot is a panic.
try_dealloc_absent_panics(c, b) ==
  [c |-> Block_try_dealloc(c, b),
   res |-> IF BlockValid(c, b) THEN "ok" ELSE "panic"]

\* Arena<Block>::try_dealloc with its return value: Some(data) is "ok",
\* None is "absent".
try_dealloc(c, b) ==
  [c |-> Block_try_dealloc(c, b),
   res |-> IF BlockValid(c, b) THEN "ok" ELSE "absent"]

(***************************************************************************)
(* Accessors of a block (block.rs 201-262): each dereferences the handle   *)
(* and panics ("invalid pointer") when the slot is absent.                 *)
(***************************************************************************)
Block_head(c, self) ==
  IF ~BlockValid(c, self) THEN Panic(c) ELSE Got(c, c.head[self])

Block_tail(c, self) ==
  IF ~BlockValid(c, self) THEN Panic(c) ELSE Got(c, c.tail[self])

Block_set_head(c, self, head) ==
  IF ~BlockValid(c, self) THEN Panic(c) ELSE Ok([c EXCEPT !.head[self] = head])

Block_set_tail(c, self, tail) ==
  IF ~BlockValid(c, self) THEN Panic(c) ELSE Ok([c EXCEPT !.tail[self] = tail])

Block_next(c, self) ==
  IF ~BlockValid(c, self) THEN Panic(c) ELSE Got(c, c.bnext[self])

Block_prev(c, self) ==
  IF ~BlockValid(c, self) THEN Panic(c) ELSE Got(c, c.bprev[self])

Block_container(c, self) ==
  IF ~BlockValid(c, self) THEN Panic(c) ELSE Got(c, c.bcont[self])

Block_set_next(c, self, next) ==
  IF ~BlockValid(c, self) THEN Panic(c) ELSE Ok([c EXCEPT !.bnext[self] = next])

Block_set_prev(c, self, prev) ==
  IF ~BlockValid(c, self) THEN Panic(c) ELSE Ok([c EXCEPT !.bprev[self] = prev])

Block_set_container(c, self, container) ==
  IF ~BlockValid(c, self) THEN Panic(c) ELSE Ok([c EXCEPT !.bcont[self] = container])

Block_users(c, self) ==
  IF ~BlockValid(c, self) THEN Panic(c) ELSE Got(c, c.users[self])

Block_insert_user(c, self, user) ==
  IF ~BlockValid(c, self) THEN Panic(c) ELSE Ok([c EXCEPT !.users[self] = @ \cup {user}])

Block_remove_user(c, self, user) ==
  IF ~BlockValid(c, self) THEN Panic(c) ELSE Ok([c EXCEPT !.users[self] = @ \ {user}])

(***************************************************************************)
(* The owning function (collaborator of block.rs): its block list, and     *)
(* Block::remove which hands the block to it.  Functions are not           *)
(* deallocated here, so a function handle always resolves.                 *)
(***************************************************************************)
\* Attaching block b at the end of function f's block list.
Func_push_back(c, f, b) ==
  LET t == c.ftail[f] IN
  [c EXCEPT !.bcont[b] = f,
            !.bprev[b] = t,
            !.bnext = IF t # None THEN [@ EXCEPT ![t] = b] ELSE @,
            !.ftail[f] = b,
            !.fhead[f] = IF @ = None THEN b ELSE @]

\* Detaching a block from the block list of its function: the neighbours are
\* linked to each other, the function's head/tail move off the block, and the
\* block's next, prev and container are cleared.
Block_unlink(c, self) ==
  IF ~BlockValid(c, self) THEN Panic(c)
  ELSE
    LET prev == c.bprev[self]
        next == c.bnext[self]
        cont == c.bcont[self]
        c1 == IF prev # None THEN [c EXCEPT !.bnext[prev] = next] ELSE c
        c2 == IF next # None THEN [c1 EXCEPT !.bprev[next] = prev] ELSE c1
    IN IF prev # None /\ ~BlockValid(c, prev) THEN Panic(c)
       ELSE IF next # None /\ ~BlockValid(c1, next) THEN Panic(c1)
       ELSE Ok([c2 EXCEPT !.fhead = IF cont # None /\ @[cont] = self
                                  THEN [@ EXCEPT ![cont] = next] ELSE @,
                          !.ftail = IF cont # None /\ @[cont] = self
                                  THEN [@ EXCEPT ![cont] = prev] ELSE @,
                          !.bprev[self] = None,
                          !.bnext[self] = None,
                          !.bcont[self] = None])

\* Func::remove_block(ctx, block): detach the block and destroy it.
Func_remove_block(c, f, b) ==
  LET u == Block_unlink(c, b)
  IN IF ~IsOk(u) THEN u ELSE Ok(Block_try_dealloc(u.c, b))

\* Block::remove(self, ctx, edges): the container is read (a panic on an
\* absent slot), unwrapped (a panic on None), and asked to remove the block.
\* The edges argument is not looked at.
Block_remove(c, self, edges) ==
  LET r == Block_container(c, self)
  IN IF ~IsOk(r) THEN Panic(c)
     ELSE IF r.val = None THEN Panic(c)
     ELSE Func_remove_block(c, r.val, self)

(***************************************************************************)
(* Instruction entity (collaborator of block.rs).                          *)
(***************************************************************************)
\* Arena<Inst>::alloc_with: the instruction is stored with its opcode and its
\* block operands tgts.
Inst_alloc(c, k, tgts) ==
  LET i == c.ninsts + 1 IN
  [c EXCEPT !.ninsts = i,
            !.ilive[i] = TRUE,
            !.kind[i] = k,
            !.ops[i] = tgts,
            !.inext[i] = None,
            !.iprev[i] = None,
            !.icont[i] = None]

\* The block operands idx.. of instruction i are registered on their blocks,
\* in order, with Block::insert_user; a deallocated target is a panic there,
\* and what was stored and registered before it stays.
RECURSIVE Inst_add_targets(_, _, _)
Inst_add_targets(c, i, idx) ==
  IF idx >= Len(c.ops[i]) THEN Ok(c)
  ELSE LET r == Block_insert_user(c, c.ops[i][idx + 1], User(i, idx))
       IN IF ~IsOk(r) THEN r ELSE Inst_add_targets(r.c, i, idx + 1)

\* Inst::br / Inst::cond_br / any other instruction: allocate, then register
\* the operands.
Inst_new(c, k, tgts) ==
  Inst_add_targets(Inst_alloc(c, k, tgts), c.ninsts + 1, 0)

\* Inst::br(ctx, dest)
Inst_br(c, dest) == Inst_new(c, "Br", <<dest>>)

\* inst.successor(ctx, idx): the idx-th block operand (0 = true arm, 1 = false arm)
Inst_successor(c, i, idx) == c.ops[i][idx + 1]

\* Arena<Inst>::try_dealloc: releases the slot when present, absent otherwise.
Inst_try_dealloc(c, i) ==
  IF ~InstValid(c, i) THEN c
  ELSE [c EXCEPT !.ilive[i] = FALSE,
                 !.kind[i] = "None",
                 !.ops[i] = <<>>,
                 !.inext[i] = None,
                 !.iprev[i] = None,
                 !.icont[i] = None]


(***************************************************************************)
(* Linked-list contract, instantiated for instructions within a block.     *)
(***************************************************************************)
\* LinkedListNode::insert_after(self, ctx, node)
Inst_insert_after(c, self, node) ==
  IF ~InstValid(c, self) THEN Panic(c)
  ELSE IF c.icont[self] = None THEN Err(c)
  ELSE IF ~InstValid(c, node) THEN Panic(c)
  ELSE IF c.icont[node] # None THEN Err(c)
  ELSE
    LET next == c.inext[self]
        cont == c.icont[self]
        c1 == IF next # None
              THEN [c EXCEPT !.iprev[next] = node, !.inext[node] = next]
              ELSE c
        c2 == [c1 EXCEPT !.iprev[node] = self, !.inext[self] = node]
    IN IF next # None /\ ~InstValid(c, next) THEN Panic(c)
       ELSE IF ~BlockValid(c2, cont) THEN Panic(c2)
       ELSE Ok([c2 EXCEPT !.tail[cont] = IF @ = self THEN node ELSE @,
                          !.icont[node] = cont])

\* LinkedListContainer::push_back(self, ctx, node)
Block_push_back(c, self, node) ==
  IF ~InstValid(c, node) THEN Panic(c)
  ELSE IF c.icont[node] # None THEN Err(c)
  ELSE IF ~BlockValid(c, self) THEN Panic(c)
  ELSE IF c.tail[self] # None THEN Inst_insert_after(c, c.tail[self], node)
  ELSE Ok([c EXCEPT !.head[self] = node,
                    !.tail[self] = node,
                    !.icont[node] = self])

\* LinkedListNode::unlink(self, ctx)
Inst_unlink(c, self) ==
  IF ~InstValid(c, self) THEN Panic(c)
  ELSE
    LET prev == c.iprev[self]
        next == c.inext[self]
        cont == c.icont[self]
        c1 == IF prev # None THEN [c EXCEPT !.inext[prev] = next] ELSE c
        c2 == IF next # None THEN [c1 EXCEPT !.iprev[next] = prev] ELSE c1
    IN IF prev # None /\ ~InstValid(c, prev) THEN Panic(c)
       ELSE IF next # None /\ ~InstValid(c1, next) THEN Panic(c1)
       ELSE IF cont # None /\ ~BlockValid(c2, cont) THEN Panic(c2)
       ELSE Ok([c2 EXCEPT !.head = IF cont # None /\ @[cont] = self
                                  THEN [@ EXCEPT ![cont] = next] ELSE @,
                          !.tail = IF cont # None /\ @[cont] = self
                                  THEN [@ EXCEPT ![cont] = prev] ELSE @,
                          !.iprev[self] = None,
                          !.inext[self] = None,
                          !.icont[self] = None])

\* Dropping the block operands idx.. of instruction i: remove_user on each target.
RECURSIVE Inst_drop_uses(_, _, _)
Inst_drop_uses(c, i, idx) ==
  IF idx >= Len(c.ops[i]) THEN Ok(c)
  ELSE IF ~BlockValid(c, c.ops[i][idx + 1]) THEN Panic(c)
  ELSE Inst_drop_uses(
         [c EXCEPT !.users[c.ops[i][idx + 1]] = @ \ {User(i, idx)}], i, idx + 1)

\* Inst::remove(self, ctx): drop the operand uses, unlink, deallocate.
Inst_remove(c, self) ==
  IF ~InstValid(c, self) THEN Panic(c)
  ELSE
    LET r1 == Inst_drop_uses(c, self, 0)
        r2 == IF IsOk(r1) THEN Inst_unlink(r1.c, self) ELSE r1
    IN IF IsOk(r2) THEN Ok(Inst_try_dealloc(r2.c, self)) ELSE r2

\* Mutant of remove_inst: the neighbours of the instruction are not relinked.
remove_inst_no_relink(c, self, inst) ==
  IF ~BlockValid(c, self) THEN Panic(c)
  ELSE IF ~InstValid(c, inst) THEN Panic(c)
  ELSE
    LET prev == c.iprev[inst]
        next == c.inext[inst]
        c1 == IF c.head[self] = inst THEN [c EXCEPT !.head[self] = next] ELSE c
        c2 == IF c.tail[self] = inst THEN [c1 EXCEPT !.tail[self] = prev] ELSE c1
    IN Ok(Inst_try_dealloc(c2, inst))

\* Mutant of remove_inst: head is not moved when the head is removed.
remove_inst_keeps_head(c, self, inst) ==
  IF ~BlockValid(c, self) THEN Panic(c)
  ELSE IF ~InstValid(c, inst) THEN Panic(c)
  ELSE
    LET prev == c.iprev[inst]
        next == c.inext[inst]
        c2 == IF c.tail[self] = inst THEN [c EXCEPT !.tail[self] = prev] ELSE c
        c3 == IF prev # None THEN [c2 EXCEPT !.inext[prev] = next] ELSE c2
        c4 == IF next # None THEN [c3 EXCEPT !.iprev[next] = prev] ELSE c3
    IN IF prev # None /\ ~InstValid(c2, prev) THEN Panic(c2)
       ELSE IF next # None /\ ~InstValid(c3, next) THEN Panic(c3)
       ELSE Ok(Inst_try_dealloc(c4, inst))

(***************************************************************************)
(* Block::remove_inst (block.rs 74-99).                                     *)
(***************************************************************************)
remove_inst(c, self, inst) ==
  IF ~BlockValid(c, self) THEN Panic(c)
  ELSE IF ~InstValid(c, inst) THEN Panic(c)
  ELSE
    LET prev == c.iprev[inst]
        next == c.inext[inst]
        c1 == IF c.head[self] = inst THEN [c EXCEPT !.head[self] = next] ELSE c
        c2 == IF c.tail[self] = inst THEN [c1 EXCEPT !.tail[self] = prev] ELSE c1
        c3 == IF prev # None THEN [c2 EXCEPT !.inext[prev] = next] ELSE c2
        c4 == IF next # None THEN [c3 EXCEPT !.iprev[next] = prev] ELSE c3
    IN IF prev # None /\ ~InstValid(c2, prev) THEN Panic(c2)
       ELSE IF next # None /\ ~InstValid(c3, next) THEN Panic(c3)
       ELSE Ok(Inst_try_dealloc(c4, inst))

(***************************************************************************)
(* Edge algebra (block.rs 104-160).                                        *)
(***************************************************************************)
\* Mutant of add_successor: the caller's arm flag is recorded for a Br too.
add_successor_keeps_arm(c, self, successor, inst, true_br) ==
  IF ~InstValid(c, inst) THEN Panic(c)
  ELSE IF c.kind[inst] \notin BranchKinds THEN Panic(c)
  ELSE IF ~BlockValid(c, self) THEN Panic(c)
  ELSE Ok([c EXCEPT !.successors[self] = @ \cup {BlockEdge(successor, inst, true_br)}])

\* Mutant of add_successor: a CondBr edge is always recorded as the true arm.
add_successor_arm_true(c, self, successor, inst, true_br) ==
  IF ~InstValid(c, inst) THEN Panic(c)
  ELSE IF c.kind[inst] \notin BranchKinds THEN Panic(c)
  ELSE IF ~BlockValid(c, self) THEN Panic(c)
  ELSE
    LET edge == IF c.kind[inst] = "Br"
                THEN BlockEdge(successor, inst, FALSE)
                ELSE BlockEdge(successor, inst, TRUE)
    IN Ok([c EXCEPT !.successors[self] = @ \cup {edge}])

\* Mutant of add_successor: a predecessor record is written on the target.
add_successor_records_pred(c, self, successor, inst, true_br) ==
  IF ~InstValid(c, inst) THEN Panic(c)
  ELSE IF c.kind[inst] \notin BranchKinds THEN Panic(c)
  ELSE IF ~BlockValid(c, self) THEN Panic(c)
  ELSE
    LET edge == IF c.kind[inst] = "Br"
                THEN BlockEdge(successor, inst, FALSE)
                ELSE BlockEdge(successor, inst, true_br)
    IN Ok([c EXCEPT !.successors[self] = @ \cup {edge},
                    !.users[successor] = @ \cup {User(inst, 0)}])

\* Mutant of add_successor: every opcode is accepted and wired like a Br.
add_successor_any_opcode(c, self, successor, inst, true_br) ==
  IF ~InstValid(c, inst) THEN Panic(c)
  ELSE IF ~BlockValid(c, self) THEN Panic(c)
  ELSE
    LET edge == IF c.kind[inst] = "CondBr"
                THEN BlockEdge(successor, inst, true_br)
                ELSE BlockEdge(successor, inst, FALSE)
    IN Ok([c EXCEPT !.successors[self] = @ \cup {edge}])

add_successor(c, self, successor, inst, true_br) ==
  IF ~InstValid(c, inst) THEN Panic(c)
  ELSE IF c.kind[inst] \notin BranchKinds THEN Panic(c)
  ELSE IF ~BlockValid(c, self) THEN Panic(c)
  ELSE
    LET edge == IF c.kind[inst] = "Br"
                THEN BlockEdge(successor, inst, FALSE)
                ELSE BlockEdge(successor, inst, true_br)
    IN Ok([c EXCEPT !.successors[self] = @ \cup {edge}])

\* Mutant of remove_successor_br: the terminator is deleted, its edge is kept.
remove_successor_br_keeps_edge(c, self, successor, inst) ==
  LET r1 == Inst_remove(c, inst) IN
  IF ~IsOk(r1) THEN r1
  ELSE IF ~BlockValid(r1.c, self) THEN Panic(r1.c)
  ELSE Ok(r1.c)

\* The Br arm of remove_successor: delete the terminator, then its edge.
remove_successor_br(c, self, successor, inst) ==
  LET r1 == Inst_remove(c, inst) IN
  IF ~IsOk(r1) THEN r1
  ELSE IF ~BlockValid(r1.c, self) THEN Panic(r1.c)
  ELSE Ok([r1.c EXCEPT !.successors[self] =
                          @ \ {BlockEdge(successor, inst, FALSE)}])

\* Mutant of remove_successor_condbr: the new branch jumps to the removed arm.
remove_successor_condbr_removed_arm(c, self, successor, inst, true_br) ==
  LET new_succ == Inst_successor(c, inst, IF true_br THEN 0 ELSE 1)
      new_inst == c.ninsts + 1
  IN
  IF ~BlockValid(c, self) THEN Panic(c)
  ELSE
    LET c1 == [c EXCEPT !.successors[self] =
                 (@ \ {BlockEdge(successor, inst, true_br)})
                    \ {BlockEdge(new_succ, inst, ~true_br)}]
        r2 == Inst_br(c1, new_succ)
        r3 == IF IsOk(r2) THEN Unwrap(Inst_insert_after(r2.c, inst, new_inst)) ELSE r2
        r4 == IF IsOk(r3) THEN Inst_remove(r3.c, inst) ELSE r3
    IN IF IsOk(r4) THEN add_successor(r4.c, self, new_succ, new_inst, FALSE) ELSE r4

\* The CondBr arm of remove_successor: downgrade to a Br to the other arm.
remove_successor_condbr(c, self, successor, inst, true_br) ==
  LET new_succ == Inst_successor(c, inst, IF true_br THEN 1 ELSE 0)
      new_inst == c.ninsts + 1
  IN
  IF ~BlockValid(c, self) THEN Panic(c)
  ELSE
    LET c1 == [c EXCEPT !.successors[self] =
                 (@ \ {BlockEdge(successor, inst, true_br)})
                    \ {BlockEdge(new_succ, inst, ~true_br)}]
        r2 == Inst_br(c1, new_succ)
        r3 == IF IsOk(r2) THEN Unwrap(Inst_insert_after(r2.c, inst, new_inst)) ELSE r2
        r4 == IF IsOk(r3) THEN Inst_remove(r3.c, inst) ELSE r3
    IN IF IsOk(r4) THEN add_successor(r4.c, self, new_succ, new_inst, FALSE) ELSE r4

remove_successor(c, self, successor, inst, true_br) ==
  IF ~InstValid(c, inst) THEN Panic(c)
  ELSE IF c.kind[inst] = "Br" THEN remove_successor_br(c, self, successor, inst)
  ELSE IF c.kind[inst] = "CondBr"
       THEN remove_successor_condbr(c, self, successor, inst, true_br)
  ELSE Panic(c)

\* Mutant of copy_successors: the given edges are merged into the old set.
copy_successors_merges(c, self, succs) ==
  IF ~BlockValid(c, self) THEN Panic(c)
  ELSE Ok([c EXCEPT !.successors[self] = @ \cup succs])

clear_successors(c, self) ==
  IF ~BlockValid(c, self) THEN Panic(c)
  ELSE Ok([c EXCEPT !.successors[self] = {}])

copy_successors(c, self, succs) ==
  IF ~BlockValid(c, self) THEN Panic(c)
  ELSE Ok([c EXCEPT !.successors[self] = succs])

\* self.deref(ctx).successors: a panic when the slot is absent.
successors(c, self) ==
  IF ~BlockValid(c, self) THEN Panic(c) ELSE Got(c, c.successors[self])


(***************************************************************************)
(* The state machine.  ctx is the Context; last names the operation that   *)
(* produced it: its arguments (receiver b, block argument t, instruction   *)
(* i, arm flag), the opcode of i and the successor set of b on entry, and  *)
(* the outcome; steps counts the operations made; freed holds the block    *)
(* handles whose slot try_dealloc has released, each with the number of    *)
(* blocks allocated until then; rw is the position of a remove_successor   *)
(* rewrite that is being followed step by step.                            *)
(***************************************************************************)
\* Opcode of the instruction argument as the callee sees it on entry.
KindOf(c, i) ==
  IF i = None THEN "None" ELSE IF InstValid(c, i) THEN c.kind[i] ELSE "Invalid"

\* Successor set of the receiver on entry.
PreOf(c, b) == IF b = None \/ ~BlockValid(c, b) THEN {} ELSE c.successors[b]

Call(op, b, t, i, arm, k, pre, res) ==
  [op |-> op, b |-> b, t |-> t, i |-> i, arm |-> arm,
   kind |-> k, pre |-> pre, res |-> res]

\* No rewrite is in progress.
Idle == [pc |-> "idle"]

\* One operation runs to its end, as one of at most bound operations.
DoneWithin(bound, op, b, t, i, arm, r) ==
  /\ steps < bound
  /\ rw = Idle
  /\ ctx' = r.c
  /\ last' = Call(op, b, t, i, arm, KindOf(ctx, i), PreOf(ctx, b), r.res)
  /\ steps' = steps + 1
  /\ freed' = IF op \in {"block_try_dealloc", "block_remove"} /\ r.res = "ok"
              THEN freed \cup {<<b, ctx.nblocks>>} ELSE freed
  /\ rw' = rw

Done(op, b, t, i, arm, r) == DoneWithin(MaxSteps, op, b, t, i, arm, r)

\* Handles the callers hold: every slot ever allocated, live or not.
BlockHandles(c) == 1..c.nblocks
InstHandles(c) == 1..c.ninsts
\* Bounds of the state space: the arenas themselves never refuse an allocation.
CanAllocInst(c) == c.ninsts < MaxInsts
CanAllocBlock(c) == c.nblocks < MaxBlocks

\* Block operand lists of the instruction kinds.
Targets(c, k) ==
  IF k = "Br" THEN {<<t>> : t \in BlockHandles(c)}
  ELSE IF k = "CondBr" THEN {<<t, f>> : t \in BlockHandles(c), f \in BlockHandles(c)}
  ELSE {<<>>}

\* A function body as the front end leaves it: two blocks attached to
\* function 1 in order, block 1 holding an ordinary instruction followed by a
\* terminator that targets these blocks.  With wired, the terminator's edges
\* are registered on block 1, one add_successor per operand.
RECURSIVE AllocBlocks(_, _)
AllocBlocks(c, n) == IF n = 0 THEN c ELSE AllocBlocks(Block_new(c).c, n - 1)

WireEdges(c, b, i) ==
  IF c.kind[i] = "Br"
  THEN add_successor(c, b, Inst_successor(c, i, 0), i, FALSE).c
  ELSE add_successor(add_successor(c, b, Inst_successor(c, i, 0), i, TRUE).c,
                     b, Inst_successor(c, i, 1), i, FALSE).c

BuiltCtx(k, tgts, wired) ==
  LET c0 == Func_push_back(Func_push_back(AllocBlocks(EmptyCtx, 2), 1, 1), 1, 2)
      c1 == Block_push_back(Inst_new(c0, "Other", <<>>).c, 1, 1).c
      c2 == Block_push_back(Inst_new(c1, k, tgts).c, 1, 2).c
  IN IF wired THEN WireEdges(c2, 1, 2) ELSE c2

Init ==
  /\ \E k \in BranchKinds, wired \in BOOLEAN :
       \E tgts \in Targets(AllocBlocks(EmptyCtx, 2), k) :
         ctx = BuiltCtx(k, tgts, wired)
  /\ last = Call("init", None, None, None, FALSE, "None", {}, "ok")
  /\ steps = 0
  /\ freed = {}
  /\ rw = Idle

BlockNew ==
  /\ CanAllocBlock(ctx)
  /\ Done("block_new", None, None, None, FALSE, Block_new(ctx))

BlockTryDealloc(b) ==
  Done("block_try_dealloc", b, None, None, FALSE, try_dealloc(ctx, b))

\* Edge lists handed to Block::remove.
EdgeLists(c, b) ==
  {<<>>} \cup (IF BlockValid(c, b) THEN {<<e>> : e \in c.successors[b]} ELSE {})

BlockRemove(b, edges) ==
  Done("block_remove", b, None, None, FALSE, Block_remove(ctx, b, edges))

InstNew(k, tgts) ==
  /\ CanAllocInst(ctx)
  /\ Done("inst_new", None, None, None, FALSE, Inst_new(ctx, k, tgts))

PushBack(b, i) == Done("push_back", b, None, i, FALSE, Block_push_back(ctx, b, i))

InsertAfter(i, j) == Done("insert_after", None, j, i, FALSE, Inst_insert_after(ctx, i, j))

RemoveInst(b, i) == Done("remove_inst", b, None, i, FALSE, remove_inst(ctx, b, i))

AddSuccessor(b, t, i, arm) ==
  Done("add_successor", b, t, i, arm, add_successor(ctx, b, t, i, arm))

RemoveSuccessor(b, t, i, arm) ==
  /\ (InstValid(ctx, i) /\ ctx.kind[i] = "CondBr") => CanAllocInst(ctx)
  /\ Done("remove_successor", b, t, i, arm, remove_successor(ctx, b, t, i, arm))

ClearSuccessors(b) == Done("clear_successors", b, None, None, FALSE, clear_successors(ctx, b))

\* The edge set handed over is one read from a block with successors(); when
\* that read panics, copy_successors is not reached.
CopySuccessors(b, from) ==
  Done("copy_successors", b, from, None, FALSE,
       LET s == successors(ctx, from)
       IN IF IsOk(s) THEN copy_successors(ctx, b, s.val) ELSE Panic(ctx))

Next ==
  \/ BlockNew
  \/ \E b \in BlockHandles(ctx) : BlockTryDealloc(b)
  \/ \E b \in BlockHandles(ctx) : \E edges \in EdgeLists(ctx, b) : BlockRemove(b, edges)
  \/ \E k \in InstKinds : \E tgts \in Targets(ctx, k) : InstNew(k, tgts)
  \/ \E b \in BlockHandles(ctx), i \in InstHandles(ctx) : PushBack(b, i)
  \/ \E i \in InstHandles(ctx), j \in InstHandles(ctx) : InsertAfter(i, j)
  \/ \E b \in BlockHandles(ctx), i \in InstHandles(ctx) : RemoveInst(b, i)
  \/ \E b \in BlockHandles(ctx), t \in BlockHandles(ctx), i \in InstHandles(ctx),
        arm \in BOOLEAN : AddSuccessor(b, t, i, arm)
  \/ \E b \in BlockHandles(ctx), t \in BlockHandles(ctx), i \in InstHandles(ctx),
        arm \in BOOLEAN : RemoveSuccessor(b, t, i, arm)
  \/ \E b \in BlockHandles(ctx) : ClearSuccessors(b)
  \/ \E b \in BlockHandles(ctx), from \in BlockHandles(ctx) : CopySuccessors(b, from)

Spec == Init /\ [][Next]_vars

(***************************************************************************)
(* The instruction list of block 1 under insert and remove_inst calls made *)
(* on that block only, with any instruction handle as argument, in         *)
(* sequences of up to MaxListSteps calls: removals from a list grown by an *)
(* insertion, and insertions into a list shortened or emptied by removals. *)
(***************************************************************************)
ListInstNew(k, tgts) ==
  /\ CanAllocInst(ctx)
  /\ DoneWithin(MaxListSteps, "inst_new", None, None, None, FALSE, Inst_new(ctx, k, tgts))

ListPushBack(b, i) ==
  DoneWithin(MaxListSteps, "push_back", b, None, i, FALSE, Block_push_back(ctx, b, i))

ListInsertAfter(i, j) ==
  DoneWithin(MaxListSteps, "insert_after", None, j, i, FALSE, Inst_insert_after(ctx, i, j))

ListRemoveInst(b, i) ==
  DoneWithin(MaxListSteps, "remove_inst", b, None, i, FALSE, remove_inst(ctx, b, i))

NextList ==
  \/ \E k \in InstKinds : \E tgts \in Targets(ctx, k) : ListInstNew(k, tgts)
  \/ \E i \in InstHandles(ctx) : ListPushBack(1, i)
  \/ \E i \in InstHandles(ctx), j \in InstHandles(ctx) : ListInsertAfter(i, j)
  \/ \E i \in InstHandles(ctx) : ListRemoveInst(1, i)

SpecList == Init /\ [][NextList]_vars

(***************************************************************************)
(* The edge algebra under callers that name, as target, the block operand  *)
(* of the terminator for the arm they pass (operand 0 for a Br).           *)
(***************************************************************************)
MatchedTarget(c, t, i, arm) ==
  /\ InstValid(c, i) /\ c.kind[i] \in BranchKinds
  /\ t = Inst_successor(c, i, IF c.kind[i] = "CondBr" /\ ~arm THEN 1 ELSE 0)

NextMatched ==
  \/ \E b \in BlockHandles(ctx), t \in BlockHandles(ctx), i \in InstHandles(ctx),
        arm \in BOOLEAN : MatchedTarget(ctx, t, i, arm) /\ AddSuccessor(b, t, i, arm)
  \/ \E b \in BlockHandles(ctx), t \in BlockHandles(ctx), i \in InstHandles(ctx),
        arm \in BOOLEAN : MatchedTarget(ctx, t, i, arm) /\ RemoveSuccessor(b, t, i, arm)

SpecMatched == Init /\ [][NextMatched]_vars


(***************************************************************************)
(* The block arena and the accessors of a block, called with any handle    *)
(* ever handed out, live or deallocated.                                   *)
(***************************************************************************)
Access(op, b, t, i, r) ==
  /\ steps < MaxCalls
  /\ rw = Idle
  /\ ctx' = r.c
  /\ last' = Call(op, b, t, i, FALSE, KindOf(ctx, i), PreOf(ctx, b), r.res)
  /\ steps' = steps + 1
  /\ freed' = IF op \in {"try_dealloc", "remove"} /\ r.res = "ok"
              THEN freed \cup {<<b, ctx.nblocks>>} ELSE freed
  /\ rw' = rw

OptBlocks(c) == {None} \cup BlockHandles(c)
OptInsts(c) == {None} \cup InstHandles(c)
OptFuncs == {None} \cup Funcs
UserSlots(c) == {User(i, 0) : i \in InstHandles(c)}

ArenaAlloc == CanAllocBlock(ctx) /\ Access("alloc", None, None, None, Block_new(ctx))
ArenaTryDealloc(b) == Access("try_dealloc", b, None, None, try_dealloc(ctx, b))
ArenaRemove(b) == Access("remove", b, None, None, Block_remove(ctx, b, <<>>))
GetHead(b) == Access("head", b, None, None, Block_head(ctx, b))
GetTail(b) == Access("tail", b, None, None, Block_tail(ctx, b))
SetHead(b, v) == Access("set_head", b, None, v, Block_set_head(ctx, b, v))
SetTail(b, v) == Access("set_tail", b, None, v, Block_set_tail(ctx, b, v))
GetNext(b) == Access("next", b, None, None, Block_next(ctx, b))
GetPrev(b) == Access("prev", b, None, None, Block_prev(ctx, b))
GetContainer(b) == Access("container", b, None, None, Block_container(ctx, b))
SetNext(b, v) == Access("set_next", b, v, None, Block_set_next(ctx, b, v))
SetPrev(b, v) == Access("set_prev", b, v, None, Block_set_prev(ctx, b, v))
SetContainer(b, f) == Access("set_container", b, f, None, Block_set_container(ctx, b, f))
GetUsers(b) == Access("users", b, None, None, Block_users(ctx, b))
InsertUser(b, u) == Access("insert_user", b, None, u[1], Block_insert_user(ctx, b, u))
RemoveUser(b, u) == Access("remove_user", b, None, u[1], Block_remove_user(ctx, b, u))

NextArena ==
  \/ ArenaAlloc
  \/ \E b \in BlockHandles(ctx) : ArenaTryDealloc(b)
  \/ \E b \in BlockHandles(ctx) : ArenaRemove(b)
  \/ \E b \in BlockHandles(ctx) : GetHead(b)
  \/ \E b \in BlockHandles(ctx) : GetTail(b)
  \/ \E b \in BlockHandles(ctx), v \in OptInsts(ctx) : SetHead(b, v)
  \/ \E b \in BlockHandles(ctx), v \in OptInsts(ctx) : SetTail(b, v)
  \/ \E b \in BlockHandles(ctx) : GetNext(b)
  \/ \E b \in BlockHandles(ctx) : GetPrev(b)
  \/ \E b \in BlockHandles(ctx) : GetContainer(b)
  \/ \E b \in BlockHandles(ctx), v \in OptBlocks(ctx) : SetNext(b, v)
  \/ \E b \in BlockHandles(ctx), v \in OptBlocks(ctx) : SetPrev(b, v)
  \/ \E b \in BlockHandles(ctx), f \in OptFuncs : SetContainer(b, f)
  \/ \E b \in BlockHandles(ctx) : GetUsers(b)
  \/ \E b \in BlockHandles(ctx), u \in UserSlots(ctx) : InsertUser(b, u)
  \/ \E b \in BlockHandles(ctx), u \in UserSlots(ctx) : RemoveUser(b, u)

\* The body whose block 1 ends with a wired unconditional branch to block 2.
InitArena == Init /\ ctx = BuiltCtx("Br", <<2>>, TRUE)

SpecArena == InitArena /\ [][NextArena]_vars

(***************************************************************************)
(* The CondBr arm of remove_successor followed statement by statement      *)
(* (block.rs 119-138).  rw holds the arguments of the call, the surviving  *)
(* target read on entry, the handle the new branch will get, the context   *)
(* and the receiver's successor set on entry, and pc, the statement that   *)
(* runs next.                                                              *)
(***************************************************************************)
\* Mutant of DowngradeStep: the old terminator is removed before the new
\* branch is linked.
DowngradeStep_retire_first(pc, c, a) ==
  IF pc = "edge1"
  THEN IF ~BlockValid(c, a.b) THEN Panic(c)
       ELSE Ok([c EXCEPT !.successors[a.b] = @ \ {BlockEdge(a.t, a.i, a.arm)}])
  ELSE IF pc = "edge2"
  THEN IF ~BlockValid(c, a.b) THEN Panic(c)
       ELSE Ok([c EXCEPT !.successors[a.b] = @ \ {BlockEdge(a.new_succ, a.i, ~a.arm)}])
  ELSE IF pc = "create" THEN Inst_br(c, a.new_succ)
  ELSE IF pc = "link" THEN Inst_remove(c, a.i)
  ELSE IF pc = "retire" THEN Unwrap(Inst_insert_after(c, a.i, a.new_inst))
  ELSE add_successor(c, a.b, a.new_succ, a.new_inst, FALSE)

\* Mutant of DowngradeStep: the old edges are removed only at the end, with
\* the recording of the new edge.
DowngradeStep_edges_late(pc, c, a) ==
  IF pc \in {"edge1", "edge2"}
  THEN IF ~BlockValid(c, a.b) THEN Panic(c) ELSE Ok(c)
  ELSE IF pc = "create" THEN Inst_br(c, a.new_succ)
  ELSE IF pc = "link" THEN Unwrap(Inst_insert_after(c, a.i, a.new_inst))
  ELSE IF pc = "retire" THEN Inst_remove(c, a.i)
  ELSE IF ~BlockValid(c, a.b) THEN Panic(c)
  ELSE add_successor(
         [c EXCEPT !.successors[a.b] =
            (@ \ {BlockEdge(a.t, a.i, a.arm)}) \ {BlockEdge(a.new_succ, a.i, ~a.arm)}],
         a.b, a.new_succ, a.new_inst, FALSE)

\* The statement at pc, run on context c for the call a.
DowngradeStep(pc, c, a) ==
  IF pc = "edge1"
  THEN IF ~BlockValid(c, a.b) THEN Panic(c)
       ELSE Ok([c EXCEPT !.successors[a.b] = @ \ {BlockEdge(a.t, a.i, a.arm)}])
  ELSE IF pc = "edge2"
  THEN IF ~BlockValid(c, a.b) THEN Panic(c)
       ELSE Ok([c EXCEPT !.successors[a.b] = @ \ {BlockEdge(a.new_succ, a.i, ~a.arm)}])
  ELSE IF pc = "create" THEN Inst_br(c, a.new_succ)
  ELSE IF pc = "link" THEN Unwrap(Inst_insert_after(c, a.i, a.new_inst))
  ELSE IF pc = "retire" THEN Inst_remove(c, a.i)
  ELSE add_successor(c, a.b, a.new_succ, a.new_inst, FALSE)

\* remove_successor is entered with a two-way terminator: the opcode is
\* matched and the surviving arm's target is read.
BeginDowngrade(b, t, i, arm) ==
  /\ steps < MaxSteps
  /\ rw = Idle
  /\ InstValid(ctx, i) /\ ctx.kind[i] = "CondBr"
  /\ CanAllocInst(ctx)
  /\ rw' = [pc |-> "edge1", b |-> b, t |-> t, i |-> i, arm |-> arm,
            new_succ |-> Inst_successor(ctx, i, IF arm THEN 1 ELSE 0),
            new_inst |-> ctx.ninsts + 1,
            entry |-> ctx, pre |-> PreOf(ctx, b)]
  /\ UNCHANGED <<ctx, last, steps, freed>>

\* One statement runs; after the last one, or on a panic, the call is over.
SubStep(pc, next) ==
  /\ LET r == DowngradeStep(pc, ctx, rw) IN
     /\ ctx' = r.c
     /\ IF r.res = "ok" /\ next # "idle"
        THEN /\ rw' = [rw EXCEPT !.pc = next]
             /\ UNCHANGED <<last, steps>>
        ELSE /\ rw' = Idle
             /\ last' = Call("remove_successor", rw.b, rw.t, rw.i, rw.arm,
                             "CondBr", rw.pre, r.res)
             /\ steps' = steps + 1
  /\ UNCHANGED freed

RemoveArmEdge == rw.pc = "edge1" /\ SubStep("edge1", "edge2")
RemoveOtherEdge == rw.pc = "edge2" /\ SubStep("edge2", "create")
CreateBr == rw.pc = "create" /\ SubStep("create", "link")
LinkBr == rw.pc = "link" /\ SubStep("link", "retire")
RetireCondBr == rw.pc = "retire" /\ SubStep("retire", "record")
RecordBrEdge == rw.pc = "record" /\ SubStep("record", "idle")

\* A reader looks at block b between two statements of the rewrite: it sees
\* the last instruction of b's list and b's successor set.
Observe(b) ==
  /\ rw.pc # "idle"
  /\ BlockValid(ctx, b)
  /\ last' = Call("observe", b, None, ctx.tail[b], FALSE,
                  KindOf(ctx, ctx.tail[b]), successors(ctx, b).val, "ok")
  /\ UNCHANGED <<ctx, steps, freed, rw>>

NextDowngrade ==
  \/ \E b \in BlockHandles(ctx), t \in BlockHandles(ctx), i \in InstHandles(ctx),
        arm \in BOOLEAN : BeginDowngrade(b, t, i, arm)
  \/ RemoveArmEdge
  \/ RemoveOtherEdge
  \/ CreateBr
  \/ LinkBr
  \/ RetireCondBr
  \/ RecordBrEdge
  \/ \E b \in BlockHandles(ctx) : Observe(b)

SpecDowngrade == Init /\ [][NextDowngrade]_vars

(***************************************************************************)
(* Observations used by the properties.                                    *)
(***************************************************************************)
Range(f) == {f[k] : k \in DOMAIN f}
Reverse(sq) == [k \in 1..Len(sq) |-> sq[Len(sq) + 1 - k]]
Replace(sq, a, b) == [k \in 1..Len(sq) |-> IF sq[k] = a THEN b ELSE sq[k]]
Without(sq, a) == SelectSeq(sq, LAMBDA x : x # a)
NoDuplicates(sq) == \A j, k \in 1..Len(sq) : sq[j] = sq[k] => j = k

\* Walk from an instruction via next (resp. prev), up to a handle to a
\* deallocated instruction, which cannot be dereferenced.
RECURSIVE FwdFrom(_, _, _)
FwdFrom(c, i, fuel) ==
  IF i = None \/ fuel = 0 THEN <<>>
  ELSE <<i>> \o FwdFrom(c, IF InstValid(c, i) THEN c.inext[i] ELSE None, fuel - 1)

RECURSIVE BwdFrom(_, _, _)
BwdFrom(c, i, fuel) ==
  IF i = None \/ fuel = 0 THEN <<>>
  ELSE <<i>> \o BwdFrom(c, IF InstValid(c, i) THEN c.iprev[i] ELSE None, fuel - 1)

\* block.iter(ctx): head to tail via next; and tail to head via prev.  The
\* iteration panics ("invalid pointer") when the block, or an instruction it
\* comes to, is deallocated.
InstList(c, b) ==
  IF ~BlockValid(c, b) THEN Panic(c)
  ELSE LET w == FwdFrom(c, c.head[b], MaxInsts + 1)
       IN IF \E k \in DOMAIN w : ~InstValid(c, w[k]) THEN Panic(c) ELSE Got(c, w)

InstListRev(c, b) ==
  IF ~BlockValid(c, b) THEN Panic(c)
  ELSE LET w == BwdFrom(c, c.tail[b], MaxInsts + 1)
       IN IF \E k \in DOMAIN w : ~InstValid(c, w[k]) THEN Panic(c) ELSE Got(c, w)

\* Instruction i is linked in block b's list.
InList(c, b, i) ==
  LET r == InstList(c, b)
  IN IsOk(r) /\ i \in Range(r.val) /\ InstValid(c, i) /\ c.icont[i] = b

\* The edges of block b whose terminator is i.
EdgesOf(c, b, i) == {e \in c.successors[b] : EdgeInst(e) = i}

\* The operand slots of live instructions that reference block b.
OperandUses(c, b) ==
  {u \in InstHandles(c) \X {0, 1} :
     /\ InstValid(c, u[1])
     /\ u[2] < Len(c.ops[u[1]])
     /\ c.ops[u[1]][u[2] + 1] = b}


(***************************************************************************)
(* Properties.                                                             *)
(***************************************************************************)
\* Block b holds the two-way terminator i with both of its arm edges, and
\* only those, registered; x is the target of the arm `arm`.
TwoArmSet(c, b, i) ==
  {BlockEdge(Inst_successor(c, i, 0), i, TRUE),
   BlockEdge(Inst_successor(c, i, 1), i, FALSE)}

C1_Pre(c, b, x, i, arm) ==
  /\ BlockValid(c, b)
  /\ InstValid(c, i) /\ c.kind[i] = "CondBr"
  /\ InList(c, b, i)
  /\ \A t \in Range(c.ops[i]) : BlockValid(c, t)
  /\ c.successors[b] = TwoArmSet(c, b, i)
  /\ x = Inst_successor(c, i, IF arm THEN 0 ELSE 1)
  /\ CanAllocInst(c)

C1_Post(c, r, b, i, arm) ==
  LET n == c.ninsts + 1
      S == Inst_successor(c, i, IF arm THEN 1 ELSE 0)
  IN /\ r.res = "ok"
     /\ r.c.successors[b] = {BlockEdge(S, n, FALSE)}
     /\ n # i /\ ~InstValid(c, n)
     /\ InstValid(r.c, n) /\ r.c.kind[n] = "Br" /\ r.c.ops[n] = <<S>>
     /\ InstList(r.c, b) = Got(r.c, Replace(InstList(c, b).val, i, n))
     /\ i \notin Range(InstList(r.c, b).val)

\* C1: let live block B hold the two-way terminator c in its list, with exactly
\* the two arm edges of c registered and the arm targets live.  Then
\* remove_successor(B, X, c, arm), X the target of the removed arm, returns and
\* leaves B with exactly one edge (S, c', false): c' is a new unconditional
\* branch, S the target of the arm that was not removed, c' stands in B's
\* instruction list where c stood, and c is no longer in the list.
C1_DowngradeKeepsSurvivingArm ==
  \A b \in BlockHandles(ctx), x \in BlockHandles(ctx), i \in InstHandles(ctx),
     arm \in BOOLEAN :
    C1_Pre(ctx, b, x, i, arm) =>
      C1_Post(ctx, remove_successor(ctx, b, x, i, arm), b, i, arm)

\* A downgrade has run on a two-way terminator whose two arm edges, with
\* different targets, were the receiver's successor set, the call naming the
\* removed arm's target: the new branch took the terminator's place.
C1_Witness ==
  /\ last.op = "remove_successor" /\ last.kind = "CondBr" /\ last.res = "ok"
  /\ \E T \in Blocks : \E F \in Blocks \ {T} :
       /\ last.pre = {BlockEdge(T, last.i, TRUE), BlockEdge(F, last.i, FALSE)}
       /\ last.t = IF last.arm THEN T ELSE F
       /\ ctx.successors[last.b] =
            {BlockEdge(IF last.arm THEN F ELSE T, ctx.ninsts, FALSE)}
  /\ ~InstValid(ctx, last.i)
  /\ ctx.kind[ctx.ninsts] = "Br" /\ InList(ctx, last.b, ctx.ninsts)

\* C2: every edge recorded on a live block B has a terminator that is a live
\* instruction linked in B's own instruction list.
C2_EdgeTerminatorLinked ==
  \A b \in BlockHandles(ctx) :
    BlockValid(ctx, b) =>
      \A e \in ctx.successors[b] : InList(ctx, b, EdgeInst(e))

\* The instruction list of block b is well formed.
ListWellFormed(c, b) ==
  LET fwd == InstList(c, b) IN
  /\ IsOk(fwd)
  /\ InstListRev(c, b) = Got(c, Reverse(fwd.val))
  /\ NoDuplicates(fwd.val)
  /\ \A i \in Range(fwd.val) : InstValid(c, i) /\ c.icont[i] = b

\* C3: after any sequence of instruction inserts and remove_inst calls on
\* block 1's instruction list, the walk head-to-tail via next and the walk
\* tail-to-head via prev are reverses of each other, hold no instruction
\* twice, only live instructions, and only instructions whose container is
\* block 1.
C3_ListWellFormed == ListWellFormed(ctx, 1)

\* A third instruction was created and inserted into block 1's list [1, 2],
\* and remove_inst then removed instruction 2 from the three-instruction
\* list: instructions 1 and 3 are linked to each other and 3 is the tail.
C3_Witness ==
  /\ last.op = "remove_inst" /\ last.res = "ok" /\ last.b = 1 /\ last.i = 2
  /\ steps >= 3
  /\ ~InstValid(ctx, 2)
  /\ InstList(ctx, 1) = Got(ctx, <<1, 3>>)
  /\ ctx.inext[1] = 3 /\ ctx.iprev[3] = 1 /\ ctx.tail[1] = 3

\* C4: add_successor with an unconditional branch on a block with no edge
\* leaves exactly the edge (T, br, false), whatever arm flag the caller gave.
C4_BrEdgeArmFalse ==
  \A b \in BlockHandles(ctx), t \in BlockHandles(ctx), i \in InstHandles(ctx),
     arm \in BOOLEAN :
    (BlockValid(ctx, b) /\ InstValid(ctx, i) /\ ctx.kind[i] = "Br"
       /\ ctx.successors[b] = {})
    => LET r == add_successor(ctx, b, t, i, arm)
       IN r.res = "ok" /\ successors(r.c, b) = Got(r.c, {<<t, i, FALSE>>})

\* add_successor was called with a Br and arm flag true on a block without
\* edges, and the block now holds the one edge, flagged false.
C4_Witness ==
  /\ last.op = "add_successor" /\ last.kind = "Br" /\ last.res = "ok"
  /\ last.pre = {} /\ last.arm
  /\ ctx.successors[last.b] = {BlockEdge(last.t, last.i, FALSE)}

\* C5: registering both arms (T, F) of a two-way terminator c on a block with
\* no edge leaves exactly the two edges (T,c,true) and (F,c,false), two
\* distinct members also when T = F.
C5_BothArmsRegistered ==
  \A b \in BlockHandles(ctx), i \in InstHandles(ctx) :
    (BlockValid(ctx, b) /\ InstValid(ctx, i) /\ ctx.kind[i] = "CondBr"
       /\ ctx.successors[b] = {})
    => LET T == Inst_successor(ctx, i, 0)
           F == Inst_successor(ctx, i, 1)
           r1 == add_successor(ctx, b, T, i, TRUE)
           r2 == add_successor(r1.c, b, F, i, FALSE)
       IN /\ r1.res = "ok" /\ r2.res = "ok"
          /\ IsOk(successors(r2.c, b))
          /\ Cardinality(successors(r2.c, b).val) = 2
          /\ \E e1, e2 \in successors(r2.c, b).val :
               /\ EdgeTo(e1) = T /\ EdgeInst(e1) = i /\ EdgeIsTrueBranch(e1)
               /\ EdgeTo(e2) = F /\ EdgeInst(e2) = i /\ ~EdgeIsTrueBranch(e2)

\* Both arms of a two-way terminator whose arms target the same block have
\* been registered one after the other on a block that had no edge.
C5_Witness ==
  /\ steps = 2
  /\ last.op = "add_successor" /\ last.kind = "CondBr" /\ last.res = "ok"
  /\ ~last.arm
  /\ Inst_successor(ctx, last.i, 0) = last.t /\ Inst_successor(ctx, last.i, 1) = last.t
  /\ last.pre = {BlockEdge(last.t, last.i, TRUE)}
  /\ ctx.successors[last.b] =
       {BlockEdge(last.t, last.i, TRUE), BlockEdge(last.t, last.i, FALSE)}

\* C6: a terminator with at least one edge recorded on a block has exactly two
\* edges there (one per arm flag) when it is a CondBr, exactly one when a Br.
C6_EdgeCountPerTerminator ==
  \A b \in BlockHandles(ctx), i \in InstHandles(ctx) :
    (BlockValid(ctx, b) /\ InstValid(ctx, i) /\ EdgesOf(ctx, b, i) # {})
    => IF ctx.kind[i] = "CondBr"
       THEN /\ Cardinality(EdgesOf(ctx, b, i)) = 2
            /\ {EdgeIsTrueBranch(e) : e \in EdgesOf(ctx, b, i)} = BOOLEAN
       ELSE Cardinality(EdgesOf(ctx, b, i)) = 1

\* C6 as amended: when every call names the terminator's operand for the arm
\* as target, a live CondBr with an edge recorded on a block has one or two
\* edges there, no two with the same arm flag, and a live Br exactly one.
C6_EdgeCountMatched ==
  \A b \in BlockHandles(ctx), i \in InstHandles(ctx) :
    (BlockValid(ctx, b) /\ InstValid(ctx, i) /\ EdgesOf(ctx, b, i) # {})
    => IF ctx.kind[i] = "CondBr"
       THEN /\ Cardinality(EdgesOf(ctx, b, i)) \in {1, 2}
            /\ \A e1, e2 \in EdgesOf(ctx, b, i) :
                 EdgeIsTrueBranch(e1) = EdgeIsTrueBranch(e2) => e1 = e2
       ELSE Cardinality(EdgesOf(ctx, b, i)) = 1

\* One arm of a two-way terminator has been registered on a block that had no
\* edge: the terminator has one edge, the other arm's is still to come.
C6_Witness ==
  /\ last.op = "add_successor" /\ last.kind = "CondBr" /\ last.res = "ok"
  /\ last.pre = {}
  /\ EdgesOf(ctx, last.b, last.i) = {BlockEdge(last.t, last.i, last.arm)}
  /\ last.t = Inst_successor(ctx, last.i, IF last.arm THEN 0 ELSE 1)

\* C7: remove_successor with the unconditional terminator br of live block B
\* (br is B's tail, its target is live), whose edge is recorded on B, removes
\* the edge, unlinks and deallocates br, and inserts nothing: no edge of br is
\* left, B's list is the old one without br, and no instruction was created.
C7_BrRemoved ==
  \A b \in BlockHandles(ctx), t \in BlockHandles(ctx), i \in InstHandles(ctx),
     arm \in BOOLEAN :
    (BlockValid(ctx, b) /\ InstValid(ctx, i) /\ ctx.kind[i] = "Br"
       /\ InList(ctx, b, i) /\ ctx.tail[b] = i
       /\ (\A x \in Range(ctx.ops[i]) : BlockValid(ctx, x))
       /\ EdgesOf(ctx, b, i) = {BlockEdge(t, i, FALSE)})
    => LET r == remove_successor(ctx, b, t, i, arm)
       IN /\ r.res = "ok"
          /\ successors(r.c, b) = Got(r.c, ctx.successors[b] \ {BlockEdge(t, i, FALSE)})
          /\ EdgesOf(r.c, b, i) = {}
          /\ ~InstValid(r.c, i)
          /\ r.c.ninsts = ctx.ninsts
          /\ InstList(r.c, b) = Got(r.c, Without(InstList(ctx, b).val, i))
          /\ r.c.tail[b] # i

\* remove_successor has run on the unconditional terminator of the freshly
\* built body, whose one edge was the receiver's successor set: the block has
\* no edge, its list has lost the terminator, and no instruction was created.
C7_Witness ==
  /\ steps = 1
  /\ last.op = "remove_successor" /\ last.kind = "Br" /\ last.res = "ok"
  /\ last.pre = {BlockEdge(last.t, last.i, FALSE)}
  /\ ctx.successors[last.b] = {}
  /\ ~InstValid(ctx, last.i) /\ ctx.ninsts = 2
  /\ InstList(ctx, last.b) = Got(ctx, <<1>>)

\* C8: remove_inst with an instruction that is not linked in B's list is an
\* error and changes nothing.
C8_RemoveForeignInstRejected ==
  \A b \in BlockHandles(ctx), i \in InstHandles(ctx) :
    (BlockValid(ctx, b) /\ InstValid(ctx, i) /\ ~InList(ctx, b, i))
    => LET r == remove_inst(ctx, b, i) IN r.res # "ok" /\ r.c = ctx

\* C9: add_successor and remove_successor given a terminator that is neither a
\* Br nor a CondBr fail, and leave the context as it was.
C9_OtherOpcodeRejected ==
  \A b \in BlockHandles(ctx), t \in BlockHandles(ctx), i \in InstHandles(ctx),
     arm \in BOOLEAN :
    (InstValid(ctx, i) /\ ctx.kind[i] \notin BranchKinds)
    => LET ra == add_successor(ctx, b, t, i, arm)
           rr == remove_successor(ctx, b, t, i, arm)
       IN /\ ra.res = "panic" /\ ra.c = ctx
          /\ rr.res = "panic" /\ rr.c = ctx

\* add_successor was called on the freshly built body with the ordinary
\* instruction 1: it panicked, and the context is still the built one.
C9_Witness ==
  /\ steps = 1
  /\ last.op = "add_successor" /\ last.kind = "Other" /\ last.res = "panic"
  /\ InstValid(ctx, 1) /\ ctx.kind[1] = "Other" /\ InList(ctx, 1, 1)
  /\ \E k \in BranchKinds, wired \in BOOLEAN :
       \E tgts \in Targets(AllocBlocks(EmptyCtx, 2), k) : ctx = BuiltCtx(k, tgts, wired)

\* C10: the user set of every live block is exactly the set of operand slots
\* of live instructions that reference the block.
C10_UsersExact ==
  \A b \in BlockHandles(ctx) :
    BlockValid(ctx, b) => ctx.users[b] = OperandUses(ctx, b)

\* The block still has a recorded user or a structural link.
BlockReferenced(c, b) ==
  \/ c.users[b] # {}
  \/ c.head[b] # None \/ c.tail[b] # None
  \/ c.bnext[b] # None \/ c.bprev[b] # None \/ c.bcont[b] # None
  \/ \E f \in Funcs : c.fhead[f] = b \/ c.ftail[f] = b

\* C11: deallocating a block that still has a recorded user or a structural
\* link is refused and the slot stays; remove_inst does not deallocate an
\* instruction that is the terminator of an edge recorded on a live block.
C11_ReferencedDeallocCaught ==
  /\ \A b \in BlockHandles(ctx) :
       (BlockValid(ctx, b) /\ BlockReferenced(ctx, b))
       => LET r == try_dealloc(ctx, b) IN r.res # "ok" /\ BlockValid(r.c, b)
  /\ \A b \in BlockHandles(ctx), i \in InstHandles(ctx) :
       (BlockValid(ctx, b) /\ InstValid(ctx, i) /\ EdgesOf(ctx, b, i) # {})
       => InstValid(remove_inst(ctx, b, i).c, i)

\* The block handles released so far.
FreedHandles == {f[1] : f \in freed}

\* C12: try_dealloc on a block handle whose slot has been released returns
\* the absent result and leaves the context unchanged, in every later state:
\* however often it is repeated and whatever was allocated since.
C12_DeallocAbsentStable ==
  \A b \in FreedHandles :
    LET r == try_dealloc(ctx, b) IN r.res = "absent" /\ r.c = ctx

\* try_dealloc has been called on a released handle after a block was
\* allocated since the release, and returned absent.
C12_Witness ==
  /\ last.op = "try_dealloc" /\ last.res = "absent"
  /\ \E f \in freed : f[1] = last.b /\ ctx.nblocks > f[2]
  /\ BlockValid(ctx, ctx.nblocks)

\* The fields of block b are the same in contexts c and d.
SameBlock(c, d, b) ==
  /\ c.blive[b] = d.blive[b]
  /\ c.users[b] = d.users[b] /\ c.successors[b] = d.successors[b]
  /\ c.head[b] = d.head[b] /\ c.tail[b] = d.tail[b]
  /\ c.bnext[b] = d.bnext[b] /\ c.bprev[b] = d.bprev[b] /\ c.bcont[b] = d.bcont[b]

\* Block b is as Block::new makes it.
FreshBlock(c, b) ==
  /\ BlockValid(c, b)
  /\ c.successors[b] = {} /\ c.users[b] = {}
  /\ c.head[b] = None /\ c.tail[b] = None
  /\ c.bnext[b] = None /\ c.bprev[b] = None /\ c.bcont[b] = None

\* C13: Block::new returns a handle not handed out before, whose block has an
\* empty successor set, an empty user set, no head, no tail, no next, no prev
\* and no container; no field of an existing block changes.
C13_NewBlockFresh ==
  CanAllocBlock(ctx) =>
    LET r == Block_new(ctx)
        n == r.c.nblocks
    IN /\ r.res = "ok"
       /\ n \notin BlockHandles(ctx)
       /\ FreshBlock(r.c, n)
       /\ \A b \in BlockHandles(ctx) : SameBlock(ctx, r.c, b)

\* A block was allocated while an existing block had a next link, users or
\* instructions: the new block is empty and unattached.
C13_Witness ==
  /\ last.op = "alloc" /\ last.res = "ok"
  /\ FreshBlock(ctx, ctx.nblocks)
  /\ \E b \in 1..(ctx.nblocks - 1) :
       BlockValid(ctx, b) /\ ctx.bnext[b] # None /\ BlockReferenced(ctx, b)

\* The call r, made on context c, failed with "invalid pointer" and changed
\* nothing.
InvalidPointer(c, r) == r.res = "panic" /\ r.c = c

\* C14: every accessor called on a released block handle panics and leaves
\* the context unchanged, in every later state, whatever was allocated since.
C14_FreedHandleInvalid ==
  \A b \in FreedHandles :
    /\ InvalidPointer(ctx, Block_head(ctx, b))
    /\ InvalidPointer(ctx, Block_tail(ctx, b))
    /\ InvalidPointer(ctx, Block_next(ctx, b))
    /\ InvalidPointer(ctx, Block_prev(ctx, b))
    /\ InvalidPointer(ctx, Block_container(ctx, b))
    /\ InvalidPointer(ctx, Block_users(ctx, b))
    /\ \A v \in OptInsts(ctx) :
         /\ InvalidPointer(ctx, Block_set_head(ctx, b, v))
         /\ InvalidPointer(ctx, Block_set_tail(ctx, b, v))
    /\ \A v \in OptBlocks(ctx) :
         /\ InvalidPointer(ctx, Block_set_next(ctx, b, v))
         /\ InvalidPointer(ctx, Block_set_prev(ctx, b, v))
    /\ \A f \in OptFuncs : InvalidPointer(ctx, Block_set_container(ctx, b, f))
    /\ \A u \in UserSlots(ctx) :
         /\ InvalidPointer(ctx, Block_insert_user(ctx, b, u))
         /\ InvalidPointer(ctx, Block_remove_user(ctx, b, u))

\* An accessor was called on a released handle after a further block had been
\* allocated, and panicked.
C14_Witness ==
  /\ last.op \in {"head", "tail", "set_head", "set_tail", "next", "prev",
                  "container", "set_next", "set_prev", "set_container",
                  "users", "insert_user", "remove_user"}
  /\ last.res = "panic"
  /\ \E f \in freed : f[1] = last.b /\ ctx.nblocks > f[2]
  /\ BlockValid(ctx, ctx.nblocks)

\* C15: when remove_successor(B, s, c, arm) with a two-way terminator c
\* returns, B's successor set holds no edge whose terminator is c, whatever
\* the target argument s and whatever edges of c were recorded.
C15_CondBrEdgesAllRemoved ==
  \A b \in BlockHandles(ctx), s \in BlockHandles(ctx), i \in InstHandles(ctx),
     arm \in BOOLEAN :
    (BlockValid(ctx, b) /\ InstValid(ctx, i) /\ ctx.kind[i] = "CondBr"
       /\ CanAllocInst(ctx))
    => LET r == remove_successor(ctx, b, s, i, arm)
       IN r.res = "ok" => EdgesOf(r.c, b, i) = {}

\* The call followed in rw was entered with its terminator linked in the
\* receiving block's list.
DowngradePre(a) ==
  /\ BlockValid(a.entry, a.b)
  /\ InList(a.entry, a.b, a.i)
  /\ \A x \in Range(a.entry.ops[a.i]) : BlockValid(a.entry, x)

\* C16: while remove_successor downgrades the two-way terminator old of block
\* B to the branch new, the statements run in the order: remove old's edges,
\* create new, link new right after old, unlink and deallocate old, record
\* new's edge.  Between any two statements B's list holds a live branch
\* instruction, old is in the list unless new is, and before the last
\* statement the list is the entry list with new in old's place; the
\* statements together do what the whole call does.
C16_DowngradeOrder ==
  (rw.pc # "idle" /\ DowngradePre(rw)) =>
    LET b == rw.b
        old == rw.i
        new == rw.new_inst
        e == rw.entry
    IN /\ IsOk(InstList(ctx, b))
       /\ \E x \in Range(InstList(ctx, b).val) :
            InstValid(ctx, x) /\ ctx.kind[x] \in BranchKinds
       /\ InList(ctx, b, old) \/ InList(ctx, b, new)
       /\ rw.pc \in {"edge1", "edge2", "create"} =>
            /\ ctx.ninsts = e.ninsts
            /\ InstList(ctx, b).val = InstList(e, b).val
       /\ rw.pc \in {"create", "link", "retire", "record"} =>
            /\ BlockEdge(rw.t, old, rw.arm) \notin ctx.successors[b]
            /\ BlockEdge(rw.new_succ, old, ~rw.arm) \notin ctx.successors[b]
       /\ rw.pc = "link" =>
            /\ InstValid(ctx, new) /\ ctx.kind[new] = "Br" /\ ctx.icont[new] = None
            /\ InstList(ctx, b).val = InstList(e, b).val
       /\ rw.pc = "retire" =>
            /\ InList(ctx, b, old) /\ InList(ctx, b, new)
            /\ ctx.inext[old] = new /\ ctx.iprev[new] = old
       /\ rw.pc = "record" =>
            /\ ~InstValid(ctx, old) /\ InList(ctx, b, new)
            /\ InstList(ctx, b) = Got(ctx, Replace(InstList(e, b).val, old, new))
            /\ EdgesOf(ctx, b, new) = {}
            /\ DowngradeStep("record", ctx, rw) = remove_successor(e, b, rw.t, old, rw.arm)

\* The rewrite stands between linking the new branch and retiring the old
\* terminator: both are in the block's list, the new one right after the old.
C16_Witness ==
  /\ rw.pc = "retire" /\ DowngradePre(rw)
  /\ InList(ctx, rw.b, rw.i) /\ ctx.kind[rw.i] = "CondBr"
  /\ InList(ctx, rw.b, rw.new_inst) /\ ctx.kind[rw.new_inst] = "Br"
  /\ ctx.inext[rw.i] = rw.new_inst /\ ctx.tail[rw.b] = rw.new_inst

\* C17: when the downgrade is entered with both arm edges of the terminator
\* recorded and the target of the removed arm named, then between its
\* statements, from the first edge removal until the terminator is retired,
\* the terminator is still linked in the block's list with fewer than two
\* edges recorded: one after the first removal, none from the second on.
C17_TransientVisible ==
  (/\ rw.pc \in {"edge2", "create", "link", "retire"}
   /\ DowngradePre(rw)
   /\ EdgesOf(rw.entry, rw.b, rw.i) = TwoArmSet(rw.entry, rw.b, rw.i)
   /\ rw.t = Inst_successor(rw.entry, rw.i, IF rw.arm THEN 0 ELSE 1))
  => /\ InList(ctx, rw.b, rw.i) /\ ctx.kind[rw.i] = "CondBr"
     /\ Cardinality(EdgesOf(ctx, rw.b, rw.i)) =
          IF rw.pc = "edge2" THEN 1 ELSE 0

\* A reader looked at the block after the first edge removal: it saw the
\* two-way terminator as the last instruction and one edge of it recorded,
\* where two were recorded on entry.
C17_Witness ==
  /\ rw.pc = "edge2" /\ DowngradePre(rw)
  /\ last.op = "observe" /\ last.b = rw.b /\ last.i = rw.i
  /\ last.kind = "CondBr"
  /\ Cardinality(EdgesOf(rw.entry, rw.b, rw.i)) = 2
  /\ Cardinality({ed \in last.pre : EdgeInst(ed) = last.i}) = 1

\* C18: for an instruction inst linked in the well-formed list of live block
\* B, remove_inst(B, inst) returns and leaves B's list equal to the old one
\* with inst deleted, the others in their order; head becomes inst's former
\* next if inst was the head and tail its former prev if it was the tail
\* (both empty if inst was alone), else they stay; the former neighbours
\* point at each other; inst's slot is deallocated.
C18_RemoveInstList ==
  \A b \in BlockHandles(ctx), i \in InstHandles(ctx) :
    (BlockValid(ctx, b) /\ InList(ctx, b, i) /\ ListWellFormed(ctx, b))
    => LET r == remove_inst(ctx, b, i)
           p == ctx.iprev[i]
           n == ctx.inext[i]
       IN /\ r.res = "ok"
          /\ InstList(r.c, b) = Got(r.c, Without(InstList(ctx, b).val, i))
          /\ InstListRev(r.c, b) = Got(r.c, Reverse(InstList(r.c, b).val))
          /\ r.c.head[b] = IF ctx.head[b] = i THEN n ELSE ctx.head[b]
          /\ r.c.tail[b] = IF ctx.tail[b] = i THEN p ELSE ctx.tail[b]
          /\ (InstList(ctx, b) = Got(ctx, <<i>>))
               => (r.c.head[b] = None /\ r.c.tail[b] = None)
          /\ p # None => r.c.inext[p] = n
          /\ n # None => r.c.iprev[n] = p
          /\ ~InstValid(r.c, i)

\* Two remove_inst calls have emptied the list of block 1: the last one
\* removed its only instruction, and head and tail are both empty.
C18_Witness ==
  /\ steps = 2
  /\ last.op = "remove_inst" /\ last.res = "ok" /\ last.b = 1
  /\ ~InstValid(ctx, 1) /\ ~InstValid(ctx, 2)
  /\ ctx.head[1] = None /\ ctx.tail[1] = None
  /\ InstList(ctx, 1) = Got(ctx, <<>>)

\* The edges recorded on any block.
AllEdges(c) == UNION {c.successors[b] : b \in BlockHandles(c)}

\* C19: copy_successors(B, S) makes B's successor set exactly S and
\* clear_successors(B) makes it empty; successors(B) is the current set;
\* nothing else in the context changes, in particular not the successor
\* set of the block S was read from.
C19_BulkAccessorsFrame ==
  \A b \in BlockHandles(ctx) :
    BlockValid(ctx, b) =>
      /\ LET r == clear_successors(ctx, b)
         IN /\ r.res = "ok"
            /\ successors(r.c, b) = Got(r.c, {})
            /\ r.c = [ctx EXCEPT !.successors[b] = {}]
      /\ \A S \in SUBSET AllEdges(ctx) :
           LET r == copy_successors(ctx, b, S)
           IN /\ r.res = "ok"
              /\ successors(r.c, b) = Got(r.c, S)
              /\ r.c = [ctx EXCEPT !.successors[b] = S]
      /\ \A from \in BlockHandles(ctx) :
           (BlockValid(ctx, from) /\ from # b) =>
             LET S == successors(ctx, from).val
                 r == copy_successors(ctx, b, S)
             IN /\ successors(r.c, b) = Got(r.c, S)
                /\ successors(r.c, from) = Got(r.c, S)

\* copy_successors gave a block that had edges the non-empty edge set read
\* from another block: none of its old edges is left, and the other block
\* still has its set.
C19_Witness ==
  /\ last.op = "copy_successors" /\ last.res = "ok" /\ last.b # last.t
  /\ last.pre # {}
  /\ ctx.successors[last.t] # {}
  /\ ctx.successors[last.b] = ctx.successors[last.t]
  /\ last.pre \cap ctx.successors[last.b] = {}

\* C20: add_successor(B, T, term, arm), when it returns, has changed nothing
\* but B's successor set (no field of T, of another block or of an
\* instruction), and nothing at all when the edge was already recorded; when
\* it panics it has changed nothing.
C20_AddSuccessorFrame ==
  \A b \in BlockHandles(ctx), t \in BlockHandles(ctx), i \in InstHandles(ctx),
     arm \in BOOLEAN :
    LET r == add_successor(ctx, b, t, i, arm)
        edge == BlockEdge(t, i, KindOf(ctx, i) = "CondBr" /\ arm)
    IN IF r.res = "ok"
       THEN /\ r.c = [ctx EXCEPT !.successors[b] = ctx.successors[b] \cup {edge}]
            /\ edge \in ctx.successors[b] => r.c = ctx
       ELSE r.c = ctx

\* add_successor was called with an edge the block already had: the block's
\* successor set is the one it had on entry.
C20_Witness ==
  /\ last.op = "add_successor" /\ last.res = "ok"
  /\ BlockEdge(last.t, last.i, last.kind = "CondBr" /\ last.arm) \in last.pre
  /\ ctx.successors[last.b] = last.pre

====
